---- MODULE Spec2Model ----
(***************************************************************************)
(* A model of meantools' merge_clusters.py: main's dispatch on the merge   *)
(* method and the three mergers (overlap, fingerprinting, coexpression).   *)
(*                                                                         *)
(* Conventions.                                                            *)
(*  - A 'Members' string is the sequence of its space-separated tokens;    *)
(*    row['Members'].split(' ') is that sequence and set(...) its set.     *)
(*  - A cluster ID (cluster%03d_<Source>_<Cluster>) is the row's 1-based   *)
(*    number in the concatenated frame; MC_<n> is the number n.            *)
(*  - Python's 0-based positions are 1-based positions here.               *)
(*  - Edge weights, scores and thresholds are hundredths: 0.5 is 50.       *)
(*  - The iteration order of a Python set of strings depends on the hash   *)
(*    seed: every order is possible, and the model chooses one             *)
(*    nondeterministically wherever the code iterates a set to build an    *)
(*    ordered value.                                                       *)
(***************************************************************************)
EXTENDS Integers, Sequences, FiniteSets, TLC

\* ------------------------------------------------------------------ bounds
\* Rows of the table of the selected decay rate (overlap merger).
MaxClusters == 5
\* Rows of the table of the selected decay rate (coexpression merger).
MaxCoexClusters == 3
\* Clusters handed to the fingerprint merger.
MaxFpClusters == 3

\* --------------------------------------------------------- program constants
\* get_args: --decay_rate default.
DefaultDecayRate == 25
\* merge_clusters_coex: threshold default (0.5), used by main's call.
DefaultCoexThreshold == 50
\* main's call of merge_clusters_fingerprinting passes threshold 0.5.
MainFpThreshold == 50
\* split_and_match(row, metabolite_df, column): required positional parameters.
SplitAndMatchParams == 3
\* cluster_df.apply(split_and_match, args=(metabolite_df,), axis=1): positional
\* arguments the call supplies (the row and the one element of args).
ApplySuppliedArgs == 2
\* main's call of merge_clusters_fingerprinting passes inflation 2.0.
MainFpInflation == 200
\* mc.run_mcl(adjacency_matrix) names no inflation: the library's default, 2,
\* applies.
MclDefaultInflation == 200

\* -------------------------------------------------------------- input data
\* The 'feature' column of the metabolite table (the metabolite universe).
metabolite_df == {"m1", "m2", "m3"}
\* The decay rate of the second table in the store.
OtherDecayRate == DefaultDecayRate + 25
\* The metabolites listed in the targeted-list csv, when one is given.
TargetedCsv == {"m1", "m2"}
\* Member lists a raw cluster of the selected decay rate may have.
OverlapRows ==
    { <<"m2", "g1">>, <<"m2">>, <<"m1", "m3">>, <<"m1", "g2">>,
      <<"m3", "g1">>, <<"g1", "g2">> }
\* Member lists of the clusters of the other decay rate.
OtherRows == { <<"m1", "g3">> }

\* ---------------------------------------------------------------- helpers
SeqToSet(s) == { s[i] : i \in 1..Len(s) }

\* Every order in which iterating the set S can yield its elements.
Orderings(S) ==
    { f \in [1..Cardinality(S) -> S] :
        \A i, j \in 1..Cardinality(S) : i # j => f[i] # f[j] }

SourceOf(dr) == [tag |-> "DR", rate |-> dr]

VARIABLES
    pc,                 \* where the run is
    Options,            \* the parsed command line
    all_files,          \* the tables of the store, in the store's order
    frame,              \* main: the concatenated cluster table
    called,             \* the mergers main has called, in order
    db,                 \* the tables exported to the store
    exit_msg,           \* the message of sys.exit / the exception raised, or ""
    \* merge_clusters_overlapping
    metabolite_features,    \* the anchor features passed by the caller
    clusters,               \* list of member sets of the selected rows
    m_elements,             \* anchor -> positions of the clusters holding it
    nxt,                    \* position in m_elements.items() of the merge loop
    merged_clusters,        \* the running list of merged sets
    merged_src,             \* per merged set: the clusters unioned into it
    visited_clusters,
    merged_df,              \* the rows returned
    \* merge_clusters_coex
    coexpression_df,        \* the edge table: rows gene1, gene2, edgeweight
    threshold,
    cluster_dict,           \* the selected rows: key (ID) and members
    coex_merged,            \* merged_clusters: the rows emitted so far
    coex_visited,           \* visited_clusters
    seed,                   \* position of cluster_key in cluster_dict.items()
    current_cluster,
    merge_occurred,
    clusters_to_merge,
    other,                  \* position of other_key in cluster_dict.items()
    connected,              \* the local 'connected': "unbound" until assigned
    absorb_log,             \* history: the absorptions made, seed and absorbed key
    \* merge_clusters_fingerprinting
    corr_df,                \* the association matrix, by cluster position
    fp_threshold,
    inflation,              \* the inflation argument
    G,                      \* the edges of the similarity graph
    mcl_inflation,          \* the inflation mc.run_mcl ran with, 0 before the run
    mcl_clusters,           \* the clusters mc.get_clusters returns
    cluster_df              \* the rows built from them

mainVars == <<Options, all_files, frame, called, db, exit_msg>>
ovVars == <<metabolite_features, clusters, m_elements, nxt, merged_clusters,
            merged_src, visited_clusters, merged_df>>
cxVars == <<coexpression_df, threshold, cluster_dict, coex_merged, coex_visited,
            seed, current_cluster, merge_occurred, clusters_to_merge, other,
            connected,
            absorb_log>>
fpVars == <<corr_df, fp_threshold, inflation, G, mcl_inflation, mcl_clusters,
           cluster_df>>
vars == <<pc, mainVars, ovVars, cxVars, fpVars>>

\* ------------------------------------------------------------------- main

\* get_args: the choices of --merge_method.
MergeMethods == {"fingerprinting", "overlap", "coexpression"}

\* Python's ==, on values tagged with their type: values of different types
\* are unequal (True == "fingerprinting" is False).
PyEq(a, b) == a.t = b.t /\ a.v = b.v
PyBool(b) == [t |-> "bool", v |-> b]
PyStr(s) == [t |-> "str", v |-> s]

\* A table of the store named after its decay rate.
Table(dr, rows) == [rate |-> dr, rows |-> rows]

\* main: Source from the table name, pd.concat, cluster numbering, ID.
RECURSIVE ConcatTables(_, _)
ConcatTables(tables, acc) ==
    IF tables = <<>> THEN acc
    ELSE LET t == Head(tables)
             rows == [i \in 1..Len(t.rows) |->
                        [ID |-> Len(acc) + i, Members |-> t.rows[i],
                         Source |-> SourceOf(t.rate)]]
         IN ConcatTables(Tail(tables), acc \o rows)

\* main up to the dispatch: load the tables, build the frame.
MainLoad ==
    /\ pc = "main"
    /\ IF Options.quantitation_matrix = ""
       THEN \* pd.read_csv('') raises
            /\ pc' = "failed"
            /\ exit_msg' = "FileNotFoundError"
            /\ UNCHANGED frame
       ELSE IF all_files = <<>>
       THEN /\ pc' = "failed"
            /\ exit_msg' = "ValueError: No data was imported"
            /\ UNCHANGED frame
       ELSE /\ pc' = "dispatch"
            /\ frame' = ConcatTables(all_files, <<>>)
            /\ UNCHANGED exit_msg
    /\ UNCHANGED <<Options, all_files, called, db, ovVars, cxVars, fpVars>>

\* The branch of main's if/elif chain that the options select.
DispatchBranch(opts) ==
    IF opts.merge_method = "overlap" THEN "overlap"
    ELSE IF PyEq(PyBool(opts.merge_clusters), PyStr("fingerprinting"))
         THEN "fingerprinting"
    ELSE IF opts.merge_method = "coexpression" THEN "coexpression"
    ELSE "invalid"

\* main's overlap branch: the anchors handed to merge_clusters_overlapping.
OverlapAnchors(opts) ==
    IF opts.targeted_list # "" THEN TargetedCsv ELSE metabolite_df

\* Evidence checks that look at the flag only: a wrong variant of
\* CoexEvidenceExit.
CoexEvidenceExit_FlagOnly(opts) ==
    IF ~opts.evidence THEN "Evidence is not set to True." ELSE ""

\* main's coexpression branch: the sys.exit message of the evidence checks,
\* or "" when merge_clusters_coex is called.
CoexEvidenceExit(opts) ==
    IF ~opts.evidence THEN "Evidence is not set to True."
    ELSE IF opts.evidence_source # "coex" THEN "Evidence source is not coexpression."
    ELSE IF opts.quantitation_matrix = "" THEN "Coexpression table is not provided."
    ELSE ""

\* 'if Options.merge_clusters:' and the if/elif chain on the method.
MainDispatch ==
    /\ pc = "dispatch"
    /\ IF ~Options.merge_clusters
       THEN /\ pc' = "done"
            /\ UNCHANGED <<exit_msg, called, metabolite_features, threshold>>
       ELSE LET b == DispatchBranch(Options) IN
            CASE b = "overlap" ->
                 /\ pc' = "ov_select"
                 /\ called' = Append(called, "merge_clusters_overlapping")
                 /\ metabolite_features' = OverlapAnchors(Options)
                 /\ UNCHANGED <<exit_msg, threshold>>
              [] b = "fingerprinting" ->
                 \* fingerprints, association matrix, merge_clusters_fingerprinting
                 /\ pc' = "fp_main"
                 /\ UNCHANGED <<exit_msg, called, metabolite_features, threshold>>
              [] b = "coexpression" ->
                 IF CoexEvidenceExit(Options) = ""
                 THEN /\ pc' = "cx_select"
                      /\ called' = Append(called, "merge_clusters_coex")
                      /\ threshold' = DefaultCoexThreshold
                      /\ UNCHANGED <<exit_msg, metabolite_features>>
                 ELSE /\ pc' = "exited"
                      /\ exit_msg' = CoexEvidenceExit(Options)
                      /\ UNCHANGED <<called, metabolite_features, threshold>>
              [] OTHER ->
                 /\ pc' = "exited"
                 /\ exit_msg' = "Not a valid method for merging cluster. Try again!"
                 /\ UNCHANGED <<called, metabolite_features, threshold>>
    /\ UNCHANGED <<Options, all_files, frame, db>>
    /\ UNCHANGED <<clusters, m_elements, nxt, merged_clusters, merged_src,
                   visited_clusters, merged_df>>
    /\ UNCHANGED <<coexpression_df, cluster_dict, coex_merged, coex_visited, seed,
                   current_cluster, merge_occurred, clusters_to_merge, other,
                   connected, absorb_log,
                   fpVars>>

\* ------------------------------------------------ merge_clusters_overlapping

\* A selection that forgets the decay rate: a wrong variant of SelectedRows.
SelectedRows_AllRates(df, dr) == df

\* df[df['Source'] == "DR_" + str(dr)]
SelectedRows(df, dr) == SelectSeq(df, LAMBDA r : r.Source = SourceOf(dr))

\* cluster_dict, then the list of the member sets.
ClusterList(df) == [i \in 1..Len(df) |-> SeqToSet(df[i].Members)]

OverlapSelect ==
    /\ pc = "ov_select"
    /\ clusters' = ClusterList(SelectedRows(frame, Options.decay_rate))
    /\ pc' = "ov_populate"
    /\ UNCHANGED <<cxVars, fpVars>>
    /\ UNCHANGED <<mainVars, metabolite_features, m_elements, nxt,
                   merged_clusters, merged_src, visited_clusters, merged_df>>

\* m_elements[m].append(i), or m_elements[m] = [i].
AddIndex(me, m, i) ==
    IF \E k \in 1..Len(me) : me[k].m = m
    THEN [k \in 1..Len(me) |->
            IF me[k].m = m
            THEN [me[k] EXCEPT !.indices = Append(@, i)] ELSE me[k]]
    ELSE Append(me, [m |-> m, indices |-> <<i>>])

RECURSIVE AddAll(_, _, _, _)
AddAll(me, m_star, j, i) ==
    IF j > Len(m_star) THEN me
    ELSE AddAll(AddIndex(me, m_star[j], i), m_star, j + 1, i)

\* m_star of one cluster: its anchors, in the set's iteration order.
MStar(cluster, anchors) == Orderings(cluster \cap anchors)

\* The populate loop from cluster i on: every m_elements it can build.
RECURSIVE PopulateFrom(_, _, _, _)
PopulateFrom(cl, anchors, i, me) ==
    IF i > Len(cl) THEN {me}
    ELSE UNION { PopulateFrom(cl, anchors, i + 1, AddAll(me, ord, 1, i)) :
                    ord \in MStar(cl[i], anchors) }

OverlapPopulate ==
    /\ pc = "ov_populate"
    /\ \E me \in PopulateFrom(clusters, metabolite_features, 1, <<>>) :
          m_elements' = me
    /\ nxt' = 1
    /\ merged_clusters' = <<>>
    /\ merged_src' = <<>>
    /\ visited_clusters' = {}
    /\ pc' = "ov_merge"
    /\ UNCHANGED <<cxVars, fpVars>>
    /\ UNCHANGED <<mainVars, metabolite_features, clusters, merged_df>>

\* merged_set of one anchor: the union of the clusters at its positions.
MergedSet(cl, indices) == UNION { cl[indices[k]] : k \in 1..Len(indices) }

\* 'for existing_cluster in merged_clusters: if existing_cluster &
\* new_merged_set: ...; break': the first merged set that intersects, or 0.
FirstHit(mc, new_merged_set) ==
    IF \E j \in 1..Len(mc) : mc[j] \cap new_merged_set # {}
    THEN CHOOSE j \in 1..Len(mc) :
            /\ mc[j] \cap new_merged_set # {}
            /\ \A h \in 1..(j - 1) : mc[h] \cap new_merged_set = {}
    ELSE 0

\* One iteration of 'for m, indices in m_elements.items()'.
OverlapMergeAnchor ==
    /\ pc = "ov_merge"
    /\ nxt <= Len(m_elements)
    /\ LET indices == m_elements[nxt].indices
           new_merged_set == MergedSet(clusters, indices)
           hit == FirstHit(merged_clusters, new_merged_set)
       IN IF Len(indices) > 1
          THEN /\ visited_clusters' = visited_clusters \cup SeqToSet(indices)
               /\ IF hit # 0
                  THEN /\ merged_clusters' =
                            [merged_clusters EXCEPT ![hit] = @ \cup new_merged_set]
                       /\ merged_src' =
                            [merged_src EXCEPT ![hit] = @ \cup SeqToSet(indices)]
                  ELSE IF new_merged_set \notin SeqToSet(merged_clusters)
                  THEN /\ merged_clusters' = Append(merged_clusters, new_merged_set)
                       /\ merged_src' = Append(merged_src, SeqToSet(indices))
                  ELSE UNCHANGED <<merged_clusters, merged_src>>
          ELSE UNCHANGED <<visited_clusters, merged_clusters, merged_src>>
    /\ nxt' = nxt + 1
    /\ UNCHANGED <<cxVars, fpVars>>
    /\ UNCHANGED <<pc, mainVars, metabolite_features, clusters, m_elements,
                   merged_df>>

\* A remainder that leaves out the first cluster: a wrong variant of Remaining.
Remaining_SkipsFirst(cl, visited) ==
    SelectSeq([i \in 1..Len(cl) |-> i], LAMBDA i : i \notin visited /\ i > 1)

\* The positions, in order, of the clusters not visited.
Remaining(cl, visited) ==
    SelectSeq([i \in 1..Len(cl) |-> i], LAMBDA i : i \notin visited)

\* 'Add remaining clusters that don't share M* elements'.
OverlapAddRemaining ==
    /\ pc = "ov_merge"
    /\ nxt > Len(m_elements)
    /\ LET rest == Remaining(clusters, visited_clusters) IN
         /\ merged_clusters' =
               merged_clusters \o [k \in 1..Len(rest) |-> clusters[rest[k]]]
         /\ merged_src' = merged_src \o [k \in 1..Len(rest) |-> {rest[k]}]
    /\ pc' = "ov_split"
    /\ UNCHANGED <<cxVars, fpVars>>
    /\ UNCHANGED <<mainVars, metabolite_features, clusters, m_elements, nxt,
                   visited_clusters, merged_df>>

\* The Metabolites and Genes entries of one merged set: the tokens of the
\* ' '.join, as a set (their order is the set's iteration order).
SplitMetabolites(cluster, anchors) == { e \in cluster : e \in anchors }
SplitGenes(cluster, anchors) == { e \in cluster : e \notin anchors }

OverlapSplit ==
    /\ pc = "ov_split"
    /\ merged_df' =
          [k \in 1..Len(merged_clusters) |->
              [ID |-> k,
               Metabolites |-> SplitMetabolites(merged_clusters[k], metabolite_features),
               Genes |-> SplitGenes(merged_clusters[k], metabolite_features)]]
    /\ pc' = "ov_export"
    /\ UNCHANGED <<cxVars, fpVars>>
    /\ UNCHANGED <<mainVars, metabolite_features, clusters, m_elements, nxt,
                   merged_clusters, merged_src, visited_clusters>>

\* main: the name of the exported table.
TableName(base, dr) == IF dr # 0 THEN <<base, "DR", dr>> ELSE <<base>>

MainExportOverlap ==
    /\ pc = "ov_export"
    /\ db' = db \cup { [name |-> TableName("merged_cluster_overlap_metabolites",
                                           Options.decay_rate),
                        df |-> merged_df] }
    /\ pc' = "done"
    /\ UNCHANGED <<cxVars, fpVars>>
    /\ UNCHANGED <<Options, all_files, frame, called, exit_msg, ovVars>>

\* ------------------------------------------------------ merge_clusters_coex

\* The feature names in sorted() order.
Lexical == <<"g1", "g2", "g3", "m1", "m2", "m3">>
\* The members in descending order: a wrong variant of Sorted.
Sorted_Reversed(S) ==
    LET up == SelectSeq(Lexical, LAMBDA x : x \in S)
    IN [i \in 1..Len(up) |-> up[Len(up) + 1 - i]]

\* sorted(current_cluster): the tokens of the ' '.join.
Sorted(S) == SelectSeq(Lexical, LAMBDA x : x \in S)

\* cluster_dict: the key and the member list of each selected row.
ClusterDict(df) == [i \in 1..Len(df) |-> [key |-> df[i].ID, members |-> df[i].Members]]

\* The decay-rate selection, cluster_dict and the empty accumulators.
CoexSelect ==
    /\ pc = "cx_select"
    /\ cluster_dict' = ClusterDict(SelectedRows(frame, Options.decay_rate))
    /\ coex_merged' = <<>>
    /\ coex_visited' = {}
    /\ seed' = 1
    /\ pc' = "cx_seed"
    /\ UNCHANGED <<mainVars, ovVars, fpVars, coexpression_df, threshold,
                   current_cluster, merge_occurred, clusters_to_merge, other,
                   connected,
                   absorb_log>>

\* 'for cluster_key, cluster in cluster_dict.items()': a visited key is
\* skipped, another starts a seed.
CoexNextSeed ==
    /\ pc = "cx_seed"
    /\ seed <= Len(cluster_dict)
    /\ IF cluster_dict[seed].key \in coex_visited
       THEN /\ seed' = seed + 1
            /\ UNCHANGED <<pc, current_cluster, merge_occurred>>
       ELSE /\ current_cluster' = SeqToSet(cluster_dict[seed].members)
            /\ merge_occurred' = TRUE
            /\ pc' = "cx_while"
            /\ UNCHANGED seed
    /\ UNCHANGED <<mainVars, ovVars, fpVars, coexpression_df, threshold,
                   cluster_dict, coex_merged, coex_visited, clusters_to_merge,
                   other, connected,
                   absorb_log>>

\* 'while merge_occurred:' entered: a new pass over the clusters.
CoexStartPass ==
    /\ pc = "cx_while"
    /\ merge_occurred
    /\ merge_occurred' = FALSE
    /\ clusters_to_merge' = <<>>
    /\ other' = 1
    /\ pc' = "cx_other"
    /\ UNCHANGED <<mainVars, ovVars, fpVars, coexpression_df, threshold,
                   cluster_dict, coex_merged, coex_visited, seed,
                   current_cluster, connected,
                   absorb_log>>

\* connected_genes of one gene: both end points of every row that has the
\* gene as gene1 or gene2 and an edgeweight >= threshold.
ConnectedGenes(gene, df, th) ==
    LET connections == { r \in df : \/ (r.gene1 = gene /\ r.edgeweight >= th)
                                    \/ (r.gene2 = gene /\ r.edgeweight >= th) }
    IN { r.gene1 : r \in connections } \cup { r.gene2 : r \in connections }

\* The gene loop reaches 'connected = True'.
GeneLoopConnects(current, other_cluster, df, th) ==
    \E gene \in current :
        ConnectedGenes(gene, df, th) \cap SeqToSet(other_cluster) # {}

\* One iteration of 'for other_key, other_cluster in cluster_dict.items()'.
CoexExamine ==
    /\ pc = "cx_other"
    /\ other <= Len(cluster_dict)
    /\ LET other_key == cluster_dict[other].key
           other_cluster == cluster_dict[other].members
       IN IF other_key \in coex_visited \/ other_key = cluster_dict[seed].key
          THEN /\ other' = other + 1
               /\ UNCHANGED <<pc, exit_msg, connected, clusters_to_merge,
                              current_cluster, merge_occurred, absorb_log>>
          ELSE LET now == IF GeneLoopConnects(current_cluster, other_cluster,
                                              coexpression_df, threshold)
                          THEN "True" ELSE connected
               IN /\ connected' = now
                  /\ IF now = "unbound"
                     THEN \* 'if connected:' reads a local never assigned
                          /\ pc' = "failed"
                          /\ exit_msg' = "UnboundLocalError: connected"
                          /\ UNCHANGED <<other, clusters_to_merge,
                                         current_cluster, merge_occurred,
                                         absorb_log>>
                     ELSE /\ clusters_to_merge' = Append(clusters_to_merge, other_key)
                          /\ current_cluster' =
                                current_cluster \cup SeqToSet(other_cluster)
                          /\ merge_occurred' = TRUE
                          /\ absorb_log' = Append(absorb_log,
                                [seed |-> cluster_dict[seed].key, key |-> other_key])
                          /\ other' = other + 1
                          /\ UNCHANGED <<pc, exit_msg>>
    /\ UNCHANGED <<Options, all_files, frame, called, db, ovVars, fpVars,
                   coexpression_df, threshold, cluster_dict, coex_merged,
                   coex_visited, seed>>

\* The pass is over: 'visited_clusters.update(clusters_to_merge)'.
CoexEndPass ==
    /\ pc = "cx_other"
    /\ other > Len(cluster_dict)
    /\ coex_visited' = coex_visited \cup SeqToSet(clusters_to_merge)
    /\ pc' = "cx_while"
    /\ UNCHANGED <<mainVars, ovVars, fpVars, coexpression_df, threshold,
                   cluster_dict, coex_merged, seed, current_cluster,
                   merge_occurred, clusters_to_merge, other, connected,
                   absorb_log>>

\* The while loop is left: the seed's row is stored and the seed visited.
CoexEmit ==
    /\ pc = "cx_while"
    /\ ~merge_occurred
    /\ coex_merged' = Append(coex_merged,
            [ID |-> cluster_dict[seed].key, Members |-> Sorted(current_cluster)])
    /\ coex_visited' = coex_visited \cup {cluster_dict[seed].key}
    /\ seed' = seed + 1
    /\ pc' = "cx_seed"
    /\ UNCHANGED <<mainVars, ovVars, fpVars, coexpression_df, threshold,
                   cluster_dict, current_cluster, merge_occurred,
                   clusters_to_merge, other, connected,
                   absorb_log>>

\* The seed loop is over: merged_df = pd.DataFrame(merged_clusters) is returned.
CoexReturn ==
    /\ pc = "cx_seed"
    /\ seed > Len(cluster_dict)
    /\ pc' = "cx_returned"
    /\ UNCHANGED <<mainVars, ovVars, fpVars, cxVars>>

\* main: the coexpression result is exported.
MainExportCoex ==
    /\ pc = "cx_returned"
    /\ db' = db \cup { [name |-> TableName("merged_cluster_coex", Options.decay_rate),
                        df |-> coex_merged] }
    /\ pc' = "done"
    /\ UNCHANGED <<Options, all_files, frame, called, exit_msg, ovVars, cxVars,
                   fpVars>>

\* -------------------------------------------- merge_clusters_fingerprinting

\* An edge test that leaves out the equal scores: a wrong variant of EdgeExists.
EdgeExists_Strict(i, j, corr, th) == i # j /\ corr[i][j] > th

\* 'if i != j and value >= threshold: G.add_edge(i, j, weight=value)'
EdgeExists(i, j, corr, th) == i # j /\ corr[i][j] >= th

\* The undirected edges the two loops over corr_df add.
GraphEdges(corr, th) ==
    { {p[1], p[2]} : p \in { q \in (1..Len(corr)) \X (1..Len(corr)) :
                                EdgeExists(q[1], q[2], corr, th) } }

FpBuildGraph ==
    /\ pc = "fp_build"
    /\ G' = GraphEdges(corr_df, fp_threshold)
    /\ pc' = "fp_mcl"
    /\ UNCHANGED <<mainVars, ovVars, cxVars, corr_df, fp_threshold, inflation,
                   mcl_inflation, mcl_clusters, cluster_df>>

\* The nodes joined to those of S by a path of edges.
RECURSIVE Component(_, _)
Component(S, edges) ==
    LET T == S \cup { j \in UNION edges : \E i \in S : {i, j} \in edges }
    IN IF T = S THEN S ELSE Component(T, edges)

\* The partitions of S: the block of one element, and a partition of the rest.
RECURSIVE Partitions(_)
Partitions(S) ==
    IF S = {} THEN { {} }
    ELSE LET x == CHOOSE y \in S : TRUE
         IN UNION { { {B \cup {x}} \cup P : P \in Partitions(S \ (B \cup {x})) } :
                      B \in SUBSET (S \ {x}) }

\* mc.run_mcl and mc.get_clusters (the markov_clustering library): flow does
\* not cross the connected components of the graph, so the clusters returned
\* are some partition of the nodes that refines the components.
MclClusterings(nodes, edges) ==
    { P \in Partitions(nodes) : \A c \in P : \A i \in c : c \subseteq Component({i}, edges) }

\* The inflation of the call mc.run_mcl(adjacency_matrix): the call passes the
\* matrix only, whatever the function's inflation argument is.
RunMclInflation(infl) == MclDefaultInflation

FpCluster ==
    /\ pc = "fp_mcl"
    /\ mcl_inflation' = RunMclInflation(inflation)
    /\ \E P \in MclClusterings(1..Len(corr_df), G) : mcl_clusters' = P
    /\ pc' = "fp_reassemble"
    /\ UNCHANGED <<mainVars, ovVars, cxVars, corr_df, fp_threshold, inflation, G,
                   cluster_df>>

\* The positions of a cluster in increasing order.
Ascending(c, n) == SelectSeq([i \in 1..n |-> i], LAMBDA i : i \in c)

\* merge_members: the member strings of the cluster's IDs, joined by ', '.
\* The joined string is kept as the sequence of the member strings.
MergeMembers(ids, raw_df) == [k \in 1..Len(ids) |-> raw_df[ids[k]].Members]

\* clustered_columns, the 'Cluster' column and 'Merged Members'.
FpReassemble ==
    /\ pc = "fp_reassemble"
    /\ cluster_df' =
          { [Cluster |-> Ascending(c, Len(corr_df)),
             MergedMembers |-> MergeMembers(Ascending(c, Len(corr_df)), frame)] :
              c \in mcl_clusters }
    /\ pc' = "fp_split"
    /\ UNCHANGED <<mainVars, ovVars, cxVars, corr_df, fp_threshold, inflation, G,
                   mcl_inflation, mcl_clusters>>

\* row[column].split(','): the pieces of the joined string; every piece but
\* the first starts with the space that followed the comma.
SplitComma(joined) == [k \in 1..Len(joined) |-> [lead |-> k > 1, tokens |-> joined[k]]]

\* A piece equals an entry of metabolite_df['feature'].
IsFeature(piece) ==
    ~piece.lead /\ Len(piece.tokens) = 1 /\ piece.tokens[1] \in metabolite_df

\* split_and_match: matching and unmatching pieces.
SplitAndMatch(joined) ==
    [matching |-> SelectSeq(SplitComma(joined), IsFeature),
     unmatching |-> SelectSeq(SplitComma(joined), LAMBDA x : ~IsFeature(x))]

\* cluster_df.apply(split_and_match, args=(metabolite_df,), axis=1) and the
\* rest of the function.
FpSplit ==
    /\ pc = "fp_split"
    /\ IF cluster_df # {} /\ ApplySuppliedArgs < SplitAndMatchParams
       THEN /\ pc' = "failed"
            /\ exit_msg' = "TypeError: split_and_match() missing 1 required positional argument: 'column'"
            /\ UNCHANGED cluster_df
       ELSE /\ cluster_df' =
                  { [Cluster |-> r.Cluster,
                     metabolites |-> SplitAndMatch(r.MergedMembers).matching,
                     genes |-> SplitAndMatch(r.MergedMembers).unmatching] :
                      r \in cluster_df }
            /\ pc' = "fp_returned"
            /\ UNCHANGED exit_msg
    /\ UNCHANGED <<Options, all_files, frame, called, db, ovVars, cxVars,
                   corr_df, fp_threshold, inflation, G, mcl_inflation,
                   mcl_clusters>>

\* ------------------------------------------------ overlap merger: claims

\* The rows of the selected decay rate, as main's frame holds them.
InScopeRows == { i \in 1..Len(frame) : frame[i].Source = SourceOf(Options.decay_rate) }
InScopeMembers == UNION { SeqToSet(frame[i].Members) : i \in InScopeRows }
OverlapReturned == pc \in {"ov_export", "done"} /\ called = <<"merge_clusters_overlapping">>
RowMembers(row) == row.Metabolites \cup row.Genes
OutputMembers == UNION { RowMembers(merged_df[k]) : k \in 1..Len(merged_df) }

\* Clusters i and j share an anchor feature.
SharesAnchor(i, j) == clusters[i] \cap clusters[j] \cap metabolite_features # {}
\* The clusters linked to those of S by a chain of shared anchors.
RECURSIVE Chain(_)
Chain(S) ==
    LET T == S \cup { j \in 1..Len(clusters) : \E i \in S : SharesAnchor(i, j) }
    IN IF T = S THEN S ELSE Chain(T)

\* The anchor about to be processed forms a merged set that intersects two or
\* more of the merged sets that already exist.
HitsTwoExisting ==
    /\ pc = "ov_merge" /\ nxt <= Len(m_elements)
    /\ Len(m_elements[nxt].indices) > 1
    /\ Cardinality({ j \in 1..Len(merged_clusters) :
            merged_clusters[j] \cap MergedSet(clusters, m_elements[nxt].indices) # {} }) >= 2

\* C1 (as claimed): when the overlap merger has returned, any two clusters
\* linked by a chain of clusters sharing anchors pairwise have all of their
\* members in one and the same output row.
C1_TransitiveMerge ==
    OverlapReturned =>
        \A i, j \in 1..Len(clusters) :
            j \in Chain({i}) =>
                \E k \in 1..Len(merged_df) :
                    clusters[i] \cup clusters[j] \subseteq RowMembers(merged_df[k])

\* C4: when the overlap merger has returned, the members of its output rows
\* are exactly the members of the input clusters of the selected decay rate.
C4_CoverageAndScope == OverlapReturned => OutputMembers = InScopeMembers

\* C4's case: a run that merged clusters, dropped a member that occurs only
\* at the other decay rate, and returned.
C4_Witness ==
    /\ OverlapReturned
    /\ Len(merged_df) < Len(clusters)
    /\ \E i \in 1..Len(frame) : i \notin InScopeRows
          /\ SeqToSet(frame[i].Members) \ InScopeMembers # {}
          /\ SeqToSet(frame[i].Members) \cap InScopeMembers # {}

\* C5 (as claimed): when the merge loops have ended, every selected cluster
\* has been put into exactly one merged set.
C5_EmittedOnce ==
    pc \in {"ov_split", "ov_export", "done"} /\ called = <<"merge_clusters_overlapping">> =>
        \A i \in 1..Len(clusters) :
            Cardinality({ k \in 1..Len(merged_src) : i \in merged_src[k] }) = 1

\* C8 (as claimed): in every output row each member is in exactly one of
\* Metabolites and Genes, and in Metabolites iff it is a feature of the
\* metabolite table.
C8_SplitByUniverse ==
    OverlapReturned =>
        \A k \in 1..Len(merged_df) :
            /\ merged_df[k].Metabolites \cap merged_df[k].Genes = {}
            /\ \A e \in RowMembers(merged_df[k]) :
                  e \in merged_df[k].Metabolites <=> e \in metabolite_df

\* C9 (as claimed): the merged sets returned share no anchor feature with one
\* another, so that a second run over them finds no anchor in two clusters
\* and merges nothing.
C9_OutputsShareNoAnchor ==
    OverlapReturned =>
        \A k, l \in 1..Len(merged_df) :
            k # l => RowMembers(merged_df[k]) \cap RowMembers(merged_df[l])
                        \cap metabolite_features = {}

\* No anchor feature of cluster i occurs in another selected cluster.
Untouched(i) == \A j \in 1..Len(clusters) : j # i => ~SharesAnchor(i, j)

\* C12: when the overlap merger has returned, every selected cluster that
\* shares no anchor with another one has gone into exactly one merged set,
\* alone, and the output row of that set holds exactly the cluster's members.
C12_UntouchedCarriedThrough ==
    OverlapReturned =>
        \A i \in 1..Len(clusters) :
            Untouched(i) =>
                /\ Cardinality({ k \in 1..Len(merged_src) : i \in merged_src[k] }) = 1
                /\ \A k \in 1..Len(merged_src) :
                      i \in merged_src[k] =>
                          /\ merged_src[k] = {i}
                          /\ RowMembers(merged_df[k]) = clusters[i]

\* C12's case: a returned run in which some clusters were merged while a
\* cluster without any anchor and a cluster whose anchor is in no other
\* cluster were left untouched.
C12_Witness ==
    /\ OverlapReturned
    /\ \E k \in 1..Len(merged_src) : Cardinality(merged_src[k]) >= 2
    /\ \E i \in 1..Len(clusters) :
          Untouched(i) /\ clusters[i] \cap metabolite_features = {}
    /\ \E i \in 1..Len(clusters) :
          Untouched(i) /\ clusters[i] \cap metabolite_features # {}

\* The merge loop's effect on merged_clusters for one item of m_elements.
MergeOne(mc, cl, indices) ==
    IF Len(indices) > 1
    THEN LET new_merged_set == MergedSet(cl, indices)
             hit == FirstHit(mc, new_merged_set)
         IN IF hit # 0 THEN [mc EXCEPT ![hit] = @ \cup new_merged_set]
            ELSE IF new_merged_set \notin SeqToSet(mc) THEN Append(mc, new_merged_set)
            ELSE mc
    ELSE mc

\* The merge loop over the items of me from position k on.
RECURSIVE MergeFrom(_, _, _, _)
MergeFrom(mc, cl, me, k) ==
    IF k > Len(me) THEN mc
    ELSE MergeFrom(MergeOne(mc, cl, me[k].indices), cl, me, k + 1)

\* visited_clusters after the merge loop over me.
VisitedBy(me) ==
    UNION { SeqToSet(me[k].indices) : k \in { h \in 1..Len(me) : Len(me[h].indices) > 1 } }

\* The merged member sets the function returns when the anchors are processed
\* in the order of me, without their IDs and the order of the rows.
Grouping(cl, me) ==
    LET rest == Remaining(cl, VisitedBy(me))
    IN SeqToSet(MergeFrom(<<>>, cl, me, 1) \o [k \in 1..Len(rest) |-> cl[rest[k]]])

\* C15 (as claimed): when the overlap merger has returned, the member sets of
\* its rows are those that every other processing order of the anchors, for
\* the same clusters and the same anchor set, would have given.
C15_GroupingOrderIndependent ==
    OverlapReturned =>
        \A me \in PopulateFrom(clusters, metabolite_features, 1, <<>>) :
            Grouping(clusters, me) =
                { RowMembers(merged_df[k]) : k \in 1..Len(merged_df) }

\* ------------------------------------------- coexpression merger: claims

\* The pass is at a candidate that is neither visited nor the seed.
ExaminesCandidate ==
    /\ pc = "cx_other" /\ other <= Len(cluster_dict)
    /\ cluster_dict[other].key \notin coex_visited
    /\ cluster_dict[other].key # cluster_dict[seed].key

\* An edge of weight >= threshold joins a gene of the current set, as gene1 or
\* as gene2, to a gene of the candidate at its other end.
EdgeBetween(current, candidate) ==
    \E r \in coexpression_df :
        /\ r.edgeweight >= threshold
        /\ \/ (r.gene1 \in current /\ r.gene2 \in candidate)
           \/ (r.gene2 \in current /\ r.gene1 \in candidate)

\* C2 (as claimed): the examination of a candidate does not fail, and absorbs
\* the candidate iff an edge of weight >= threshold joins a gene of the current
\* set to a gene of the candidate, whatever was decided for earlier candidates.
C2_AbsorptionRule ==
    [][ExaminesCandidate =>
          /\ pc' # "failed"
          /\ (cluster_dict[other].key \in SeqToSet(clusters_to_merge')
                <=> EdgeBetween(current_cluster, SeqToSet(cluster_dict[other].members)))]_vars

\* C6 (as claimed): merge_clusters_coex never fails, and when a seed's row is
\* about to be stored no cluster still unvisited has an edge of weight >=
\* threshold to a gene of the seed's set.
C6_TerminatesAtFixedPoint ==
    called = <<"merge_clusters_coex">> =>
        /\ pc # "failed"
        /\ (pc = "cx_while" /\ ~merge_occurred =>
              \A k \in 1..Len(cluster_dict) :
                  (cluster_dict[k].key \notin coex_visited /\ k # seed) =>
                      ~EdgeBetween(current_cluster, SeqToSet(cluster_dict[k].members)))

\* merge_clusters_coex has returned its rows.
CoexReturned ==
    called = <<"merge_clusters_coex">> /\ pc \in {"cx_returned", "done"}
\* The output rows whose ID is key, and the absorptions of key.
KeyRows(key) == { k \in 1..Len(coex_merged) : coex_merged[k].ID = key }
KeyAbsorptions(key) == { k \in 1..Len(absorb_log) : absorb_log[k].key = key }
\* The place of a feature name in the sorted order.
LexPos(x) == CHOOSE i \in 1..Len(Lexical) : Lexical[i] = x
\* The sequence is in sorted order and repeats nothing.
StrictlySorted(members) ==
    \A i, j \in 1..Len(members) : i < j => LexPos(members[i]) < LexPos(members[j])

\* C14: when merge_clusters_coex has returned, every cluster of the selected
\* decay rate is the ID of exactly one output row or was absorbed exactly once,
\* never both; every absorption went into a seed that has a row; every row
\* lists, sorted and without repetition, the members of its seed and of the
\* clusters absorbed into it; and the members of all rows together are the
\* members of the selected clusters.
C14_AccountedOnce ==
    CoexReturned =>
        /\ \A i \in InScopeRows :
              Cardinality(KeyRows(i)) + Cardinality(KeyAbsorptions(i)) = 1
        /\ \A k \in 1..Len(absorb_log) : Cardinality(KeyRows(absorb_log[k].seed)) = 1
        /\ \A k \in 1..Len(coex_merged) :
              /\ coex_merged[k].ID \in InScopeRows
              /\ StrictlySorted(coex_merged[k].Members)
              /\ SeqToSet(coex_merged[k].Members) =
                    SeqToSet(frame[coex_merged[k].ID].Members) \cup
                    UNION { SeqToSet(frame[absorb_log[a].key].Members) :
                              a \in { b \in 1..Len(absorb_log) :
                                         absorb_log[b].seed = coex_merged[k].ID } }
        /\ UNION { SeqToSet(coex_merged[k].Members) : k \in 1..Len(coex_merged) }
              = InScopeMembers

\* C14's case: a returned run over three selected clusters two of which hold
\* the same gene, with a cluster of another decay rate in the frame, in which
\* clusters were absorbed.
C14_Witness ==
    /\ CoexReturned
    /\ Cardinality(InScopeRows) = 3
    /\ Len(frame) > 3
    /\ Len(absorb_log) >= 2
    /\ \E i, j \in InScopeRows :
          i # j /\ SeqToSet(frame[i].Members) \cap SeqToSet(frame[j].Members) # {}

\* ---------------------------------------------------------- main: claims

\* C3 (as claimed): once main has dispatched a requested merge, each of the
\* three methods has called its own merger (fingerprinting has gone on to the
\* fingerprints and merge_clusters_fingerprinting), and the exit for an invalid
\* method is taken only for a method that is none of the three.
C3_DispatchByMethod ==
    (Options.merge_clusters /\ pc \notin {"main", "dispatch", "failed"}) =>
        /\ (exit_msg = "Not a valid method for merging cluster. Try again!"
              => Options.merge_method \notin MergeMethods)
        /\ (Options.merge_method = "overlap"
              => called = <<"merge_clusters_overlapping">>)
        /\ (Options.merge_method = "fingerprinting" => pc = "fp_main")
        /\ (Options.merge_method = "coexpression" /\ CoexEvidenceExit(Options) = ""
              => called = <<"merge_clusters_coex">>)

\* A coexpression merge is requested without the evidence it needs.
NoCoexEvidence ==
    /\ Options.merge_clusters
    /\ Options.merge_method = "coexpression"
    /\ \/ ~Options.evidence
       \/ Options.evidence_source # "coex"
       \/ Options.quantitation_matrix = ""

\* C11: when the coexpression method is requested without the evidence flag,
\* with an evidence source other than coex, or without an edge table, main
\* never gets past its dispatch: merge_clusters_coex is not called and no
\* table is exported.
C11_NoEvidenceAborts ==
    NoCoexEvidence =>
        /\ called = <<>>
        /\ db = {}
        /\ pc \in {"main", "dispatch", "exited", "failed"}

\* C11's case: a run on a store that holds clusters, with the evidence flag set
\* and another evidence source, has ended in the fatal exit of the dispatch.
C11_Witness ==
    /\ NoCoexEvidence
    /\ Options.evidence
    /\ frame # <<>>
    /\ pc = "exited"
    /\ exit_msg = "Evidence source is not coexpression."

\* ---------------------------------------------- fingerprint merger: claims

\* The member features of the clusters at the positions ids.
FeaturesOf(ids) == UNION { SeqToSet(frame[ids[k]].Members) : k \in 1..Len(ids) }

\* C7 (as claimed): merge_clusters_fingerprinting does not fail, and in every
\* row it returns each member feature of the row's clusters is in the
\* metabolites column iff it is a feature of the metabolite table, and in the
\* genes column otherwise.
C7_ReassemblySplitsPerMember ==
    called = <<"merge_clusters_fingerprinting">> =>
        /\ pc # "failed"
        /\ (pc = "fp_returned" =>
              \A r \in cluster_df : \A e \in FeaturesOf(r.Cluster) :
                  /\ (e \in metabolite_df <=>
                        \E k \in 1..Len(r.metabolites) : r.metabolites[k].tokens = <<e>>)
                  /\ (e \notin metabolite_df <=>
                        \E k \in 1..Len(r.genes) : r.genes[k].tokens = <<e>>))

\* The graph of a call with threshold 1.0 has been built.
GraphBuiltAtOne ==
    /\ called = <<"merge_clusters_fingerprinting">>
    /\ fp_threshold = 100
    /\ pc \notin {"fp_build"}

\* C10 (as claimed): with threshold 1.0 the similarity graph has no edge
\* between two distinct clusters.
C10_NoEdgeAtThresholdOne == GraphBuiltAtOne => G = {}

\* C10 (amended): with threshold 1.0 the similarity graph has an edge between
\* two distinct clusters exactly where their score is 1.0; where every score
\* between distinct clusters is below 1.0 there is no edge and each cluster is
\* a partition of its own.
C10_EdgesOnlyAtScoreOne ==
    GraphBuiltAtOne =>
        /\ \A i, j \in 1..Len(corr_df) :
              {i, j} \in G <=> (i # j /\ (corr_df[i][j] = 100 \/ corr_df[j][i] = 100))
        /\ ((\A i, j \in 1..Len(corr_df) : i # j => corr_df[i][j] < 100)
              /\ pc \notin {"fp_build", "fp_mcl"}
                => mcl_clusters = { {i} : i \in 1..Len(corr_df) })

\* C10's case: a call with threshold 1.0 on three clusters whose matrix has a
\* score of 1.0 and a score below 1.0 between distinct clusters, clustered.
C10_Witness ==
    /\ GraphBuiltAtOne
    /\ pc = "fp_reassemble"
    /\ Len(corr_df) >= 3
    /\ \E i, j \in 1..Len(corr_df) : i # j /\ corr_df[i][j] = 100
    /\ \E i, j \in 1..Len(corr_df) : i # j /\ corr_df[i][j] < 100

\* C13 (as claimed): once merge_clusters_fingerprinting has run the MCL
\* partitioner, the partitioner has run with the inflation the caller supplied.
C13_InflationUsed ==
    (called = <<"merge_clusters_fingerprinting">>
       /\ pc \in {"fp_reassemble", "fp_split", "fp_returned", "failed"})
        => mcl_inflation = inflation

\* -------------------------------------------------------- specifications

OptionsOf(mc, mm, tl, ev, es, qm) ==
    [merge_clusters |-> mc, merge_method |-> mm, targeted_list |-> tl,
     decay_rate |-> DefaultDecayRate, evidence |-> ev, evidence_source |-> es,
     quantitation_matrix |-> qm]

\* Where the table of the other decay rate is: absent, or before or after the
\* table of the selected decay rate.
OtherTables ==
    { [pos |-> "none", rows |-> <<>>] } \cup
    { [pos |-> p, rows |-> <<r>>] : p \in {"before", "after"}, r \in OtherRows }

\* The store holding the table `mine` of the selected decay rate and `o`.
Store(mine, o) ==
    CASE o.pos = "none" -> << Table(DefaultDecayRate, mine) >>
      [] o.pos = "after" -> << Table(DefaultDecayRate, mine), Table(OtherDecayRate, o.rows) >>
      [] o.pos = "before" -> << Table(OtherDecayRate, o.rows), Table(DefaultDecayRate, mine) >>

\* all_files is a store whose table of the selected decay rate has at most n
\* rows drawn from `rows`.
StoreIn(rows, n) ==
    \E k \in 0..n : \E mine \in [1..k -> rows] : \E o \in OtherTables :
        all_files = Store(mine, o)

InitLocals ==
    /\ db = {}
    /\ exit_msg = ""
    /\ metabolite_features = {}
    /\ clusters = <<>>
    /\ m_elements = <<>>
    /\ nxt = 0
    /\ merged_clusters = <<>>
    /\ merged_src = <<>>
    /\ visited_clusters = {}
    /\ merged_df = <<>>
    /\ cluster_dict = <<>>
    /\ coex_merged = <<>>
    /\ coex_visited = {}
    /\ seed = 0
    /\ current_cluster = {}
    /\ merge_occurred = FALSE
    /\ clusters_to_merge = <<>>
    /\ other = 0
    /\ connected = "unbound"
    /\ absorb_log = <<>>
    /\ G = {}
    /\ mcl_inflation = 0
    /\ mcl_clusters = {}
    /\ cluster_df = {}

\* The inputs of the mergers that a run does not use.
NoCoexInput == coexpression_df = {} /\ threshold = DefaultCoexThreshold
NoFpInput ==
    corr_df = <<>> /\ fp_threshold = MainFpThreshold /\ inflation = MainFpInflation

\* main called for an overlap merge.
InitOverlap ==
    /\ pc = "main"
    /\ Options \in { OptionsOf(TRUE, "overlap", tl, FALSE, "", "qm.csv") :
                        tl \in {"", "targets.csv"} }
    /\ StoreIn(OverlapRows, MaxClusters)
    /\ InitLocals
    /\ frame = <<>>
    /\ called = <<>>
    /\ NoCoexInput
    /\ NoFpInput

NextOverlap ==
    \/ MainLoad
    \/ MainDispatch
    \/ OverlapSelect
    \/ OverlapPopulate
    \/ OverlapMergeAnchor
    \/ OverlapAddRemaining
    \/ OverlapSplit
    \/ MainExportOverlap

SpecOverlap == InitOverlap /\ [][NextOverlap]_vars

\* Edge rows the coexpression table may hold.
EdgePool ==
    { [gene1 |-> "g1", gene2 |-> "g2", edgeweight |-> 90],
      [gene1 |-> "g3", gene2 |-> "g2", edgeweight |-> 90],
      [gene1 |-> "g1", gene2 |-> "g3", edgeweight |-> 40] }
\* Member lists a raw cluster handed to the coexpression merger may have.
CoexRows == { <<"g1">>, <<"g2">>, <<"g3">>, <<"g1", "m1">>, <<"g1", "g3">> }
\* The thresholds merge_clusters_coex is called with.
CoexThresholds == {DefaultCoexThreshold, 95}

\* merge_clusters_coex called on a frame, an edge table and a threshold.
InitCoex ==
    /\ pc = "cx_select"
    /\ Options = OptionsOf(TRUE, "coexpression", "", TRUE, "coex", "qm.csv")
    /\ StoreIn(CoexRows, MaxCoexClusters)
    /\ InitLocals
    /\ frame = ConcatTables(all_files, <<>>)
    /\ called = <<"merge_clusters_coex">>
    /\ coexpression_df \in SUBSET EdgePool
    /\ threshold \in CoexThresholds
    /\ NoFpInput

NextCoex ==
    \/ CoexSelect
    \/ CoexNextSeed
    \/ CoexStartPass
    \/ CoexExamine
    \/ CoexEndPass
    \/ CoexEmit
    \/ CoexReturn

SpecCoex == InitCoex /\ [][NextCoex]_vars

\* The scores of an association matrix.
Scores == {0, 50, 100}
\* The symmetric matrices over n clusters with 1.0 on the diagonal.
AssociationMatrices(n) ==
    LET pairs == { p \in (1..n) \X (1..n) : p[1] < p[2] }
    IN { [i \in 1..n |-> [j \in 1..n |->
            IF i = j THEN 100 ELSE IF i < j THEN f[<<i, j>>] ELSE f[<<j, i>>]]] :
          f \in [pairs -> Scores] }
\* Member lists a raw cluster handed to the fingerprint merger may have.
FpRows == { <<"m1", "g1">>, <<"g2">> }
\* The thresholds merge_clusters_fingerprinting is called with.
FpThresholds == {MainFpThreshold, 100}
\* The inflations merge_clusters_fingerprinting is called with.
FpInflations == {MainFpInflation, 150}

\* merge_clusters_fingerprinting called on a cluster table, its association
\* matrix and a threshold.
InitFingerprint ==
    /\ pc = "fp_build"
    /\ Options = OptionsOf(TRUE, "fingerprinting", "", FALSE, "", "qm.csv")
    /\ \E k \in 1..MaxFpClusters : \E mine \in [1..k -> FpRows] :
          all_files = << Table(DefaultDecayRate, mine) >>
    /\ InitLocals
    /\ frame = ConcatTables(all_files, <<>>)
    /\ called = <<"merge_clusters_fingerprinting">>
    /\ corr_df \in AssociationMatrices(Len(frame))
    /\ fp_threshold \in FpThresholds
    /\ inflation \in FpInflations
    /\ NoCoexInput

NextFingerprint ==
    \/ FpBuildGraph
    \/ FpCluster
    \/ FpReassemble
    \/ FpSplit

SpecFingerprint == InitFingerprint /\ [][NextFingerprint]_vars

\* Rows of a table in the runs of main.
MaxMainClusters == 2
\* Member lists of the raw clusters in the runs of main.
MainRows == { <<"m1", "g1">>, <<"m1", "g2">>, <<"g2">> }

\* main called with any options get_args can produce.
Init ==
    /\ pc = "main"
    /\ Options \in { OptionsOf(mc, mm, tl, ev, es, qm) :
                        mc \in BOOLEAN, mm \in MergeMethods,
                        tl \in {"", "targets.csv"}, ev \in BOOLEAN,
                        es \in {"", "coex", "specnet"}, qm \in {"", "qm.csv"} }
    /\ (all_files = <<>> \/ StoreIn(MainRows, MaxMainClusters))
    /\ InitLocals
    /\ frame = <<>>
    /\ called = <<>>
    /\ coexpression_df \in { {}, EdgePool }
    /\ threshold = DefaultCoexThreshold
    /\ NoFpInput

Next ==
    \/ MainLoad
    \/ MainDispatch
    \/ OverlapSelect
    \/ OverlapPopulate
    \/ OverlapMergeAnchor
    \/ OverlapAddRemaining
    \/ OverlapSplit
    \/ MainExportOverlap
    \/ CoexSelect
    \/ CoexNextSeed
    \/ CoexStartPass
    \/ CoexExamine
    \/ CoexEndPass
    \/ CoexEmit
    \/ CoexReturn
    \/ MainExportCoex

Spec == Init /\ [][Next]_vars

====
